---- MODULE Spec2Model ----
(***************************************************************************)
(* Model of src/src/game.py: Piece, Field, Place, Move and Board.          *)
(*                                                                         *)
(* Piece objects live in a heap (pieces); a Field's _stack is a sequence   *)
(* of references (indices) into that heap, so that Piece.flatten, which    *)
(* mutates the object in place, is seen through every reference.           *)
(***************************************************************************)
EXTENDS Integers, Sequences, FiniteSets, TLC

VARIABLES board, pieces, last, fld, places, rules, pieces_left, current_player,
          starting_color

\* the state of a Game besides its Board
gameVars == <<rules, pieces_left, current_player, starting_color>>

vars == <<board, pieces, last, fld, places, gameVars>>

----------------------------------------------------------------------------
(* Bounds of the model *)

Size == 2          \* Board(size)
MaxPieces == 2     \* Piece objects put on the board
MaxMoveLen == 2    \* len(move_list)
MaxDrop == 2       \* largest entry of a move_list
FieldPieces == 3   \* Piece objects of the caller that drives one Field directly
MaxIncoming == 2   \* len(stack) handed to Field.add_stack directly
MaxCount == 3      \* largest count handed to Field.take_stones directly
MaxFieldHeight == 3 \* height a directly driven Field is grown to
MaxKept == 1       \* Place actions a caller keeps to apply again
GameSize == 3      \* Game(size, ...): the smallest size Game.RULES has

----------------------------------------------------------------------------
(* Module constants, game.py:4-9 and Move.DIRECTION_DICT *)

WHITE == "white"
BLACK == "black"
CAP == "cap"
FLAT == "flat"
WALL == "wall"
STONE_TYPES == {CAP, FLAT, WALL}
COLORS == {BLACK, WHITE}

UP == "up"
LEFT == "left"
RIGHT == "right"
DOWN == "down"
DIRECTION_DICT == [up |-> <<0, 1>>, down |-> <<0, -1>>, left |-> <<-1, 0>>, right |-> <<1, 0>>]
DIRECTIONS == {UP, DOWN, LEFT, RIGHT}

\* the builtin `type` that Piece.flatten compares with CAP
BuiltinType == "<class 'type'>"

----------------------------------------------------------------------------
(* Python list primitives *)

Min2(a, b) == IF a < b THEN a ELSE b
Max2(a, b) == IF a > b THEN a ELSE b

\* a slice bound i normalised against a list of length n
PySliceIndex(i, n) == IF i < 0 THEN Max2(n + i, 0) ELSE Min2(i, n)

\* s[i:]
PySliceFrom(s, i) == SubSeq(s, PySliceIndex(i, Len(s)) + 1, Len(s))

\* s[:j]
PySliceTo(s, j) == SubSeq(s, 1, PySliceIndex(j, Len(s)))

\* the position list[i] designates in a list of length n, -1 for IndexError
PyIndex(i, n) == IF 0 <= i /\ i < n THEN i ELSE IF -n <= i /\ i < 0 THEN n + i ELSE -1

RECURSIVE sum(_)
sum(s) == IF s = <<>> THEN 0 ELSE Head(s) + sum(Tail(s))

----------------------------------------------------------------------------
(* Piece *)

Piece(color, piece_type) == [color |-> color, type |-> piece_type]

is_capstone(p) == p.type = CAP

\* assert (type != CAP): compares the builtin, not self.type
flatten_assert(p) == BuiltinType # CAP

flatten(p) == [p EXCEPT !.type = FLAT]

----------------------------------------------------------------------------
(* Field: stk is Field._stack, heap the Piece objects *)

\* add_stack without its assertion on the top piece
add_stack_unchecked(stk, stack, heap) ==
    IF stk = <<>>
    THEN [status |-> "ok", stack |-> stk \o stack, pieces |-> heap]
    ELSE IF stack = <<>>
    THEN [status |-> "IndexError", stack |-> stk, pieces |-> heap]
    ELSE LET top == stk[Len(stk)]
             heap1 == IF is_capstone(heap[stack[1]])
                      THEN [heap EXCEPT ![top] = flatten(heap[top])]
                      ELSE heap
         IN  [status |-> "ok", stack |-> stk \o stack, pieces |-> heap1]

\* add_stack asserting a Flat top before it flattens for a capstone
add_stack_assert_first(stk, stack, heap) ==
    IF stk = <<>>
    THEN [status |-> "ok", stack |-> stk \o stack, pieces |-> heap]
    ELSE IF stack = <<>>
    THEN [status |-> "IndexError", stack |-> stk, pieces |-> heap]
    ELSE LET top == stk[Len(stk)]
         IN  IF heap[top].type # FLAT
             THEN [status |-> "IllegalStack", stack |-> stk, pieces |-> heap]
             ELSE [status |-> "ok", stack |-> stk \o stack, pieces |-> heap]

add_stack(stk, stack, heap) ==
    IF stk = <<>>
    THEN [status |-> "ok", stack |-> stk \o stack, pieces |-> heap]
    ELSE IF stack = <<>>
    THEN [status |-> "IndexError", stack |-> stk, pieces |-> heap]
    ELSE LET top == stk[Len(stk)]
             cap == is_capstone(heap[stack[1]])
         IN  IF cap /\ ~flatten_assert(heap[top])
             THEN [status |-> "IllegalFlatten", stack |-> stk, pieces |-> heap]
             ELSE LET heap1 == IF cap THEN [heap EXCEPT ![top] = flatten(heap[top])]
                                      ELSE heap
                  IN  IF heap1[top].type # FLAT
                      THEN [status |-> "IllegalStack", stack |-> stk, pieces |-> heap1]
                      ELSE [status |-> "ok", stack |-> stk \o stack, pieces |-> heap1]

take_stones(stk, count) ==
    IF ~(Len(stk) >= count)
    THEN [ok |-> FALSE, new_stack |-> <<>>, stack |-> stk]
    ELSE [ok |-> TRUE, new_stack |-> PySliceFrom(stk, 0 - count),
          stack |-> PySliceTo(stk, 0 - count)]

----------------------------------------------------------------------------
(* Board *)

Cells == (0 .. Size - 1) \X (0 .. Size - 1)

InGrid(x, y) == 0 <= x /\ x < Size /\ 0 <= y /\ y < Size

\* Board.field without its assertion: Python's list indexing alone
field_unchecked(x, y) ==
    IF PyIndex(x, Size) = -1 \/ PyIndex(y, Size) = -1
    THEN [ok |-> FALSE, cell |-> <<0, 0>>]
    ELSE [ok |-> TRUE, cell |-> <<PyIndex(x, Size), PyIndex(y, Size)>>]

\* Board.field: the assertion, then self._fields[x][y]
field(x, y) ==
    IF ~(InGrid(x, y)) \/ PyIndex(x, Size) = -1 \/ PyIndex(y, Size) = -1
    THEN [ok |-> FALSE, cell |-> <<0, 0>>]
    ELSE [ok |-> TRUE, cell |-> <<PyIndex(x, Size), PyIndex(y, Size)>>]

\* the loop of Board.apply for a Move, one iteration per entry of move_list
RECURSIVE MoveLoop(_, _, _, _, _, _, _, _, _)
MoveLoop(b, heap, stack, move_list, x, y, dx, dy, visited) ==
    IF move_list = <<>>
    THEN [status |-> "ok", board |-> b, pieces |-> heap, visited |-> visited]
    ELSE LET i == Head(move_list)
             f == field(x, y)
         IN  IF ~f.ok
             THEN [status |-> "OutOfBounds", board |-> b, pieces |-> heap, visited |-> visited]
             ELSE LET r == add_stack(b[f.cell], PySliceTo(stack, i), heap)
                      vis == Append(visited, <<x, y>>)
                  IN  IF r.status # "ok"
                      THEN [status |-> r.status, board |-> b, pieces |-> r.pieces,
                            visited |-> vis]
                      ELSE MoveLoop([b EXCEPT ![f.cell] = r.stack], r.pieces,
                                    PySliceFrom(stack, i), Tail(move_list),
                                    x + dx, y + dy, dx, dy, vis)

height(move_list) == sum(move_list)

\* the Move branch walking along the other axis
ApplyMove_turned(b, heap, x, y, move_list, direction) ==
    IF ~(height(move_list) <= Size)
    THEN [status |-> "CarryLimitExceeded", board |-> b, pieces |-> heap, visited |-> <<>>]
    ELSE LET f == field(x, y)
         IN  IF ~f.ok
             THEN [status |-> "OutOfBounds", board |-> b, pieces |-> heap, visited |-> <<>>]
             ELSE LET t == take_stones(b[f.cell], height(move_list))
                  IN  IF ~t.ok
                      THEN [status |-> "InsufficientHeight", board |-> b, pieces |-> heap,
                            visited |-> <<<<x, y>>>>]
                      ELSE MoveLoop([b EXCEPT ![f.cell] = t.stack], heap, t.new_stack,
                                    move_list, x, y,
                                    DIRECTION_DICT[direction][2],
                                    DIRECTION_DICT[direction][1], <<<<x, y>>>>)

\* the Move branch with a carry limit of size - 1
ApplyMove_strict(b, heap, x, y, move_list, direction) ==
    IF ~(height(move_list) < Size)
    THEN [status |-> "CarryLimitExceeded", board |-> b, pieces |-> heap, visited |-> <<>>]
    ELSE LET f == field(x, y)
         IN  IF ~f.ok
             THEN [status |-> "OutOfBounds", board |-> b, pieces |-> heap, visited |-> <<>>]
             ELSE LET t == take_stones(b[f.cell], height(move_list))
                  IN  IF ~t.ok
                      THEN [status |-> "InsufficientHeight", board |-> b, pieces |-> heap,
                            visited |-> <<<<x, y>>>>]
                      ELSE MoveLoop([b EXCEPT ![f.cell] = t.stack], heap, t.new_stack,
                                    move_list, x, y,
                                    DIRECTION_DICT[direction][1],
                                    DIRECTION_DICT[direction][2], <<<<x, y>>>>)

\* Board.apply, Move branch
ApplyMove(b, heap, x, y, move_list, direction) ==
    IF ~(height(move_list) <= Size)
    THEN [status |-> "CarryLimitExceeded", board |-> b, pieces |-> heap, visited |-> <<>>]
    ELSE LET f == field(x, y)
         IN  IF ~f.ok
             THEN [status |-> "OutOfBounds", board |-> b, pieces |-> heap, visited |-> <<>>]
             ELSE LET t == take_stones(b[f.cell], height(move_list))
                  IN  IF ~t.ok
                      THEN [status |-> "InsufficientHeight", board |-> b, pieces |-> heap,
                            visited |-> <<<<x, y>>>>]
                      ELSE MoveLoop([b EXCEPT ![f.cell] = t.stack], heap, t.new_stack,
                                    move_list, x, y,
                                    DIRECTION_DICT[direction][1],
                                    DIRECTION_DICT[direction][2], <<<<x, y>>>>)

\* the Place branch without its assertion that the cell is empty
ApplyPlace_unchecked(b, heap, x, y, piece) ==
    LET f == field(x, y)
    IN  IF ~f.ok
        THEN [status |-> "OutOfBounds", board |-> b, pieces |-> heap, visited |-> <<>>]
        ELSE LET r == add_stack(b[f.cell], <<piece>>, heap)
             IN  [status |-> r.status,
                  board |-> IF r.status = "ok" THEN [b EXCEPT ![f.cell] = r.stack] ELSE b,
                  pieces |-> r.pieces, visited |-> <<<<x, y>>, <<x, y>>>>]

\* Board.apply, Place branch; piece is the reference held by action.piece
ApplyPlace(b, heap, x, y, piece) ==
    LET f == field(x, y)
    IN  IF ~f.ok
        THEN [status |-> "OutOfBounds", board |-> b, pieces |-> heap, visited |-> <<>>]
        ELSE IF ~(b[f.cell] = <<>>)
        THEN [status |-> "CellOccupied", board |-> b, pieces |-> heap,
              visited |-> <<<<x, y>>>>]
        ELSE LET r == add_stack(b[f.cell], <<piece>>, heap)
             IN  [status |-> r.status,
                  board |-> IF r.status = "ok" THEN [b EXCEPT ![f.cell] = r.stack] ELSE b,
                  pieces |-> r.pieces, visited |-> <<<<x, y>>, <<x, y>>>>]

----------------------------------------------------------------------------
(* Inputs *)

\* Place.__init__ checks no coordinate: every cell, one x below the grid and
\* one y beyond it
PlaceTargets == Cells \cup {<<-1, 0>>, <<0, Size>>}

\* Move.__init__ asserts x >= 0 and y >= 0: every cell and two origins beyond the grid
MoveOrigins == Cells \cup {<<Size, 0>>, <<0, Size>>}

\* Move.__init__ asserts min(move_list) >= 0, which also rejects the empty list;
\* heights up to one more than the carry limit
MoveLists ==
    {ml \in UNION {[1 .. n -> 0 .. MaxDrop] : n \in 1 .. MaxMoveLen} : sum(ml) <= Size + 1}

RECURSIVE TotalHeight(_, _)
TotalHeight(b, cs) ==
    IF cs = {} THEN 0
    ELSE LET c == CHOOSE c \in cs : TRUE IN Len(b[c]) + TotalHeight(b, cs \ {c})

----------------------------------------------------------------------------
(* Game.RULES, game.py:169-176 *)

RULES ==
    [size \in 3 .. 8 |->
        CASE size = 3 -> [flatstones |-> 10, capstones |-> 0]
          [] size = 4 -> [flatstones |-> 15, capstones |-> 0]
          [] size = 5 -> [flatstones |-> 21, capstones |-> 1]
          [] size = 6 -> [flatstones |-> 30, capstones |-> 1]
          [] size = 7 -> [flatstones |-> 40, capstones |-> 2]
          [] size = 8 -> [flatstones |-> 50, capstones |-> 2]]

\* no Game has been constructed: the class attribute RULES is as written
NoGame ==
    /\ rules = RULES
    /\ pieces_left = <<>>
    /\ current_player = 0
    /\ starting_color = WHITE

----------------------------------------------------------------------------
(* The board driven by Board.apply.  last is what the caller of the most   *)
(* recent call knows of it: which branch ran, how it ended, and the        *)
(* height of the Move.                                                     *)

Init ==
    /\ board = [c \in Cells |-> <<>>]
    /\ pieces = <<>>
    /\ last = [op |-> "none", status |-> "ok", height |-> 0]
    /\ fld = <<>>
    /\ places = <<>>
    /\ NoGame

\* board.apply(Place(x, y, color, piece_type)): Place.__init__ creates the Piece.
\* The Piece stays in the heap only when the call put it on the board.
PlaceNew(x, y, color, piece_type) ==
    LET p == Len(pieces) + 1
        r == ApplyPlace(board, Append(pieces, Piece(color, piece_type)), x, y, p)
    IN  /\ Len(pieces) < MaxPieces
        /\ board' = r.board
        /\ pieces' = IF r.status = "ok" THEN r.pieces ELSE pieces
        /\ last' = [op |-> "place", status |-> r.status, height |-> 0]
        /\ UNCHANGED <<fld, places, gameVars>>

\* board.apply(Move(x, y, move_list, direction))
DoMove(x, y, move_list, direction) ==
    LET r == ApplyMove(board, pieces, x, y, move_list, direction)
    IN  /\ board' = r.board
        /\ pieces' = r.pieces
        /\ last' = [op |-> "move", status |-> r.status, height |-> height(move_list)]
        /\ UNCHANGED <<fld, places, gameVars>>

Next ==
    \/ \E c \in PlaceTargets, color \in COLORS, piece_type \in STONE_TYPES :
            PlaceNew(c[1], c[2], color, piece_type)
    \/ \E c \in MoveOrigins, move_list \in MoveLists, direction \in DIRECTIONS :
            DoMove(c[1], c[2], move_list, direction)

Spec == Init /\ [][Next]_vars

----------------------------------------------------------------------------
(* One Field driven through its own methods.  The caller owns FieldPieces  *)
(* Piece objects; fld is the Field's _stack; last keeps the call, the      *)
(* stack and the heap it found, and what it returned.                      *)

FieldPieceIds == 1 .. FieldPieces

InitField ==
    /\ board = [c \in Cells |-> <<>>]
    /\ pieces \in [FieldPieceIds -> {Piece(color, t) : color \in COLORS, t \in STONE_TYPES}]
    /\ fld = <<>>
    /\ last = [op |-> "none", status |-> "ok", stack |-> <<>>, count |-> 0,
               before |-> <<>>, heap |-> pieces, returned |-> <<>>]
    /\ places = <<>>
    /\ NoGame

Range(s) == {s[i] : i \in DOMAIN s}

\* the lists the caller can hand over: pieces it holds, each once
Incoming ==
    {s \in UNION {[1 .. n -> FieldPieceIds] : n \in 0 .. MaxIncoming} :
        /\ \A i, j \in DOMAIN s : i # j => s[i] # s[j]
        /\ Range(s) \cap Range(fld) = {}}

\* field.add_stack(stack)
FieldAddStack(stack) ==
    LET r == add_stack(fld, stack, pieces)
    IN  /\ Len(fld) + Len(stack) <= MaxFieldHeight
        /\ fld' = r.stack
        /\ pieces' = r.pieces
        /\ last' = [op |-> "add_stack", status |-> r.status, stack |-> stack, count |-> 0,
                    before |-> fld, heap |-> pieces, returned |-> <<>>]
        /\ UNCHANGED <<board, places, gameVars>>

\* field.take_stones(count)
FieldTakeStones(count) ==
    LET t == take_stones(fld, count)
    IN  /\ fld' = t.stack
        /\ last' = [op |-> "take_stones",
                    status |-> IF t.ok THEN "ok" ELSE "InsufficientHeight",
                    stack |-> <<>>, count |-> count, before |-> fld, heap |-> pieces,
                    returned |-> t.new_stack]
        /\ UNCHANGED <<board, pieces, places, gameVars>>

NextField ==
    \/ \E stack \in Incoming : FieldAddStack(stack)
    \/ \E count \in 0 .. MaxCount : FieldTakeStones(count)

SpecField == InitField /\ [][NextField]_vars

----------------------------------------------------------------------------
(* The board driven by a caller that keeps its Place actions and applies   *)
(* them again: places[a] is a Place object, its piece the reference        *)
(* Place.__init__ stored.                                                  *)

\* board.apply(Place(x, y, color, piece_type)), the action kept when it was applied
PlaceKept(x, y, color, piece_type) ==
    LET p == Len(pieces) + 1
        r == ApplyPlace(board, Append(pieces, Piece(color, piece_type)), x, y, p)
    IN  /\ Len(pieces) < MaxKept
        /\ board' = r.board
        /\ pieces' = IF r.status = "ok" THEN r.pieces ELSE pieces
        /\ places' = IF r.status = "ok"
                      THEN Append(places, [x |-> x, y |-> y, piece |-> p])
                      ELSE places
        /\ last' = [op |-> "place", status |-> r.status, height |-> 0]
        /\ UNCHANGED <<fld, gameVars>>

\* board.apply(action) with a Place action that was applied before
PlaceAgain(a) ==
    LET r == ApplyPlace(board, pieces, places[a].x, places[a].y, places[a].piece)
    IN  /\ TotalHeight(board, Cells) < MaxPieces
        /\ board' = r.board
        /\ pieces' = r.pieces
        /\ last' = [op |-> "place again", status |-> r.status, height |-> 0]
        /\ UNCHANGED <<fld, places, gameVars>>

NextReapply ==
    \/ \E c \in PlaceTargets, color \in COLORS, piece_type \in STONE_TYPES :
            PlaceKept(c[1], c[2], color, piece_type)
    \/ \E a \in DOMAIN places : PlaceAgain(a)
    \/ \E c \in MoveOrigins, move_list \in MoveLists, direction \in DIRECTIONS :
            DoMove(c[1], c[2], move_list, direction)

SpecReapply == Init /\ [][NextReapply]_vars

----------------------------------------------------------------------------
(* Game.  The Board of a Game has GameSize rows; players are 1 and 2, the  *)
(* positions of player1 and player2 in Game.players.  pieces_left[player]  *)
(* is a reference to a dict: the key of the entry of Game.RULES it is.     *)

GameCells == (0 .. GameSize - 1) \X (0 .. GameSize - 1)

\* Board.field of the Game's Board
GameField(x, y) ==
    IF ~(0 <= x /\ x < GameSize /\ 0 <= y /\ y < GameSize)
    THEN [ok |-> FALSE, cell |-> <<0, 0>>]
    ELSE [ok |-> TRUE, cell |-> <<PyIndex(x, GameSize), PyIndex(y, GameSize)>>]

\* Board.apply of the Game's Board, Place branch
GameApplyPlace(b, heap, x, y, piece) ==
    LET f == GameField(x, y)
    IN  IF ~f.ok
        THEN [status |-> "OutOfBounds", board |-> b, pieces |-> heap]
        ELSE IF ~(b[f.cell] = <<>>)
        THEN [status |-> "CellOccupied", board |-> b, pieces |-> heap]
        ELSE LET r == add_stack(b[f.cell], <<piece>>, heap)
             IN  [status |-> r.status,
                  board |-> IF r.status = "ok" THEN [b EXCEPT ![f.cell] = r.stack] ELSE b,
                  pieces |-> r.pieces]

\* Player.assign_color as Game.__init__ calls it
color_of(player, starting) ==
    IF player = 1 THEN starting ELSE IF starting = WHITE THEN BLACK ELSE WHITE

\* Game.is_game_over: its body is pass, it returns None
is_game_over == FALSE

\* switch_players that always hands the turn to player2
switch_players_stuck(cur) == 2

\* Game.switch_players, with players = [1, 2]
switch_players(cur) == IF cur = 1 THEN 2 ELSE 1

\* next_action without the assertion on the budget
next_action_unchecked(b, heap, rl, left, cur, x, y, color, piece_type) ==
    LET p == Len(heap) + 1
        r == GameApplyPlace(b, Append(heap, Piece(color, piece_type)), x, y, p)
        stone_type == IF is_capstone(Piece(color, piece_type)) THEN "capstones"
                                                              ELSE "flatstones"
    IN  IF r.status # "ok"
        THEN [status |-> r.status, board |-> b, pieces |-> heap, rules |-> rl,
              current_player |-> cur]
        ELSE [status |-> "ok", board |-> r.board, pieces |-> r.pieces,
              rules |-> [rl EXCEPT ![left[cur]][stone_type] = @ - 1],
              current_player |-> IF is_game_over THEN cur ELSE switch_players(cur)]

\* Game.next_action when request_action returned Place(x, y, color, piece_type)
next_action(b, heap, rl, left, cur, x, y, color, piece_type) ==
    LET p == Len(heap) + 1
        r == GameApplyPlace(b, Append(heap, Piece(color, piece_type)), x, y, p)
        stone_type == IF is_capstone(Piece(color, piece_type)) THEN "capstones"
                                                              ELSE "flatstones"
    IN  IF r.status # "ok"
        THEN [status |-> r.status, board |-> b, pieces |-> heap, rules |-> rl,
              current_player |-> cur]
        ELSE IF ~(rl[left[cur]][stone_type] > 0)
        THEN [status |-> "BudgetExhausted", board |-> r.board, pieces |-> r.pieces,
              rules |-> rl, current_player |-> cur]
        ELSE [status |-> "ok", board |-> r.board, pieces |-> r.pieces,
              rules |-> [rl EXCEPT ![left[cur]][stone_type] = @ - 1],
              current_player |-> IF is_game_over THEN cur ELSE switch_players(cur)]

\* the cells a player names: three of the grid and one beyond it
GameTargets == {<<0, 0>>, <<1, 0>>, <<GameSize - 1, GameSize - 1>>, <<GameSize, 0>>}

\* Game(GameSize, player1, player2, starting)
NewGame(starting) ==
    /\ board' = [c \in GameCells |-> <<>>]
    /\ pieces' = <<>>
    /\ rules' = rules
    /\ pieces_left' = <<GameSize, GameSize>>
    /\ current_player' = 1
    /\ starting_color' = starting
    /\ last' = [op |-> "Game", status |-> "ok", stone_type |-> "none", player |-> 0]
    /\ UNCHANGED <<fld, places>>

InitGame ==
    /\ board = [c \in GameCells |-> <<>>]
    /\ pieces = <<>>
    /\ rules = RULES
    /\ pieces_left = <<GameSize, GameSize>>
    /\ current_player = 1
    /\ starting_color \in COLORS
    /\ last = [op |-> "Game", status |-> "ok", stone_type |-> "none", player |-> 0]
    /\ fld = <<>>
    /\ places = <<>>

\* game.next_action() with a player whose request_action returns a Place in
\* the player's colour
NextActionPlace(x, y, piece_type) ==
    LET r == next_action(board, pieces, rules, pieces_left, current_player, x, y,
                         color_of(current_player, starting_color), piece_type)
    IN  /\ board' = r.board
        /\ pieces' = r.pieces
        /\ rules' = r.rules
        /\ current_player' = r.current_player
        /\ last' = [op |-> "next_action", status |-> r.status,
                    stone_type |-> IF piece_type = CAP THEN "capstones" ELSE "flatstones",
                    player |-> current_player]
        /\ UNCHANGED <<fld, places, pieces_left, starting_color>>

\* game.next_action() with a Bot: request_action returns None and Board.apply
\* raises TypeError
NextActionNone ==
    /\ last' = [op |-> "next_action", status |-> "TypeError", stone_type |-> "none",
                player |-> current_player]
    /\ UNCHANGED <<board, pieces, fld, places, gameVars>>

NextGame ==
    \/ \E c \in GameTargets, piece_type \in STONE_TYPES : NextActionPlace(c[1], c[2], piece_type)
    \/ NextActionNone
    \/ \E starting \in COLORS : NewGame(starting)

SpecGame == InitGame /\ [][NextGame]_vars

----------------------------------------------------------------------------
(* Vocabulary of the properties *)

Dx(direction) == DIRECTION_DICT[direction][1]
Dy(direction) == DIRECTION_DICT[direction][2]

\* the top n pieces of a stack, bottom to top, and what lies below them
TopOf(stk, n) == SubSeq(stk, Len(stk) - n + 1, Len(stk))
BelowTop(stk, n) == SubSeq(stk, 1, Len(stk) - n)

\* the pieces of a carried slice that drop number j of move_list lets go
DropOf(carried, move_list, j) ==
    SubSeq(carried, sum(SubSeq(move_list, 1, j - 1)) + 1, sum(SubSeq(move_list, 1, j)))

TopPiece(stk, heap) == heap[stk[Len(stk)]]

----------------------------------------------------------------------------
(* C1: a successful Move empties the origin of its top sum(move_list)      *)
(* pieces and gives none back, and the cell j steps beyond the origin      *)
(* receives exactly the m_j pieces of drop j, bottom first, in order.      *)
(* Stated for the Moves that carry at least one piece.                     *)
C1Claim ==
    [][\A c \in MoveOrigins, move_list \in MoveLists, direction \in DIRECTIONS :
          (/\ sum(move_list) > 0
           /\ DoMove(c[1], c[2], move_list, direction)
           /\ last'.status = "ok") =>
              LET carried == TopOf(board[c], sum(move_list))
              IN  /\ board'[c] = BelowTop(board[c], sum(move_list))
                  /\ \A j \in 1 .. Len(move_list) :
                        move_list[j] > 0 =>
                            LET d == <<c[1] + j * Dx(direction), c[2] + j * Dy(direction)>>
                            IN  /\ d \in Cells
                                /\ board'[d] = board[d] \o DropOf(carried, move_list, j)
      ]_vars

(* C2: in every board reachable through Board.apply, every piece below the *)
(* top piece of its cell is Flat.                                          *)
C2Thm ==
    \A c \in Cells : \A i \in 1 .. Len(board[c]) - 1 : pieces[board[c][i]].type = FLAT

\* a Move has built a stack whose top is a capstone standing on another piece
C2Witness ==
    /\ last.op = "move"
    /\ last.status = "ok"
    /\ \E c \in Cells : Len(board[c]) >= 2 /\ TopPiece(board[c], pieces).type = CAP

(* C3: a successful Move, whatever its move_list, leaves the number of     *)
(* pieces on the board as it was.                                          *)
C3Claim ==
    [][(last'.op = "move" /\ last'.status = "ok") =>
          TotalHeight(board', Cells) = TotalHeight(board, Cells)]_vars

(* C6: a Place on a cell of the grid succeeds when the cell is empty and   *)
(* leaves there exactly one piece, of the action's colour and kind; on a   *)
(* non-empty cell it fails and the board is as it was.                     *)
C6Thm ==
    [][\A c \in Cells, color \in COLORS, piece_type \in STONE_TYPES :
          PlaceNew(c[1], c[2], color, piece_type) =>
              IF board[c] = <<>>
              THEN /\ last'.status = "ok"
                   /\ Len(board'[c]) = 1
                   /\ pieces'[board'[c][1]] = [color |-> color, type |-> piece_type]
                   /\ \A d \in Cells \ {c} : board'[d] = board[d]
                   /\ \A i \in DOMAIN pieces : pieces'[i] = pieces[i]
              ELSE /\ last'.status # "ok"
                   /\ board' = board
                   /\ pieces' = pieces
      ]_vars

\* a Place was refused because its cell was taken
C6Witness == last.op = "place" /\ last.status = "CellOccupied"

(* C7: a Move higher than the board size fails on the carry limit with the *)
(* board untouched; a Move exactly as high as the board size is not        *)
(* stopped by the carry limit.                                             *)
C7Thm ==
    [][last'.op = "move" =>
          /\ last'.height > Size =>
                /\ last'.status = "CarryLimitExceeded"
                /\ board' = board
                /\ pieces' = pieces
          /\ last'.height = Size => last'.status # "CarryLimitExceeded"
      ]_vars

\* a Move of one piece too many was refused on a board that holds pieces
C7Witness ==
    /\ last.op = "move"
    /\ last.height = Size + 1
    /\ last.status = "CarryLimitExceeded"
    /\ TotalHeight(board, Cells) = MaxPieces

(* C8: Board.field succeeds exactly on the coordinates of the grid; no     *)
(* Board.apply, made in any reachable board, reaches a cell through a      *)
(* coordinate outside the grid; a Move whose walk comes to such a          *)
(* coordinate fails, and no cell off the walk is changed in its place.     *)
C8Thm ==
    /\ \A x \in (0 - Size - 1) .. (2 * Size), y \in (0 - Size - 1) .. (2 * Size) :
            field(x, y).ok <=> (0 <= x /\ x < Size /\ 0 <= y /\ y < Size)
    /\ \A c \in MoveOrigins, move_list \in MoveLists, direction \in DIRECTIONS :
            LET r == ApplyMove(board, pieces, c[1], c[2], move_list, direction)
                walk == {<<c[1] + j * Dx(direction), c[2] + j * Dy(direction)>> :
                            j \in 0 .. Len(move_list) - 1}
            IN  /\ \A i \in DOMAIN r.visited : r.visited[i] \in Cells
                /\ (\E w \in walk : w \notin Cells) => r.status # "ok"
                /\ \A d \in Cells \ walk : r.board[d] = board[d]
    /\ \A c \in PlaceTargets, color \in COLORS, piece_type \in STONE_TYPES :
            LET r == ApplyPlace(board, Append(pieces, Piece(color, piece_type)),
                                c[1], c[2], Len(pieces) + 1)
            IN  /\ \A i \in DOMAIN r.visited : r.visited[i] \in Cells
                /\ c \notin Cells => (r.status = "OutOfBounds" /\ r.board = board)
                /\ \A d \in Cells \ {c} : r.board[d] = board[d]

\* a Move took pieces off a cell and then walked off the grid
C8Witness ==
    /\ last.op = "move"
    /\ last.status = "OutOfBounds"
    /\ last.height > 0
    /\ TotalHeight(board, Cells) < Len(pieces)

(* C9: a capstone is never flattened: a piece that is a Cap is a Cap after *)
(* every Board.apply.                                                      *)
C9Claim ==
    [][\A i \in DOMAIN pieces : pieces[i].type = CAP => pieces'[i].type = CAP]_vars

(* C14: when drop number j > 1 of a Move fails on the stacking rule or on  *)
(* the bounds, the origin is left without the sum(move_list) pieces that   *)
(* were picked up, the pieces of drops 1 .. j-1 stay on the board and the  *)
(* pieces not yet dropped are on no cell.  Stated for the Moves that carry *)
(* at least one piece.                                                     *)
C14Claim ==
    [][\A c \in MoveOrigins, move_list \in MoveLists, direction \in DIRECTIONS :
          LET r == ApplyMove(board, pieces, c[1], c[2], move_list, direction)
              j == IF r.status = "OutOfBounds" THEN Len(r.visited) ELSE Len(r.visited) - 1
          IN  (/\ sum(move_list) > 0
               /\ DoMove(c[1], c[2], move_list, direction)
               /\ last'.status \in {"IllegalStack", "OutOfBounds"}
               /\ j > 1) =>
                  LET carried == TopOf(board[c], sum(move_list))
                      OnSomeCell(p) ==
                          \E d \in Cells : \E i \in DOMAIN board'[d] : board'[d][i] = p
                  IN  /\ board'[c] = BelowTop(board[c], sum(move_list))
                      /\ \A n \in 1 .. Len(move_list) :
                            \A i \in DOMAIN DropOf(carried, move_list, n) :
                                OnSomeCell(DropOf(carried, move_list, n)[i]) <=> n < j
      ]_vars

(* C15: a 0 entry of a move_list is a waypoint: the step leaves the cell   *)
(* it visits as it is, whatever the cell holds, does not fail, and the     *)
(* walk goes on.                                                           *)
C15Claim ==
    [][\A c \in Cells, move_list \in MoveLists, direction \in DIRECTIONS :
          LET t == take_stones(board[c], height(move_list))
              Walked(n) == MoveLoop([board EXCEPT ![c] = t.stack], pieces, t.new_stack,
                                    SubSeq(move_list, 1, n), c[1], c[2],
                                    Dx(direction), Dy(direction), <<>>)
          IN  (/\ height(move_list) <= Size
               /\ sum(move_list) > 0
               /\ t.ok
               /\ DoMove(c[1], c[2], move_list, direction)) =>
                  \A j \in DOMAIN move_list :
                      (/\ move_list[j] = 0
                       /\ Walked(j - 1).status = "ok"
                       /\ <<c[1] + (j - 1) * Dx(direction), c[2] + (j - 1) * Dy(direction)>>
                              \in Cells) =>
                          /\ Walked(j).status = "ok"
                          /\ Walked(j).board = Walked(j - 1).board
                          /\ Walked(j).pieces = Walked(j - 1).pieces
                          /\ last'.status # "IndexError"
      ]_vars

(* C17: a Move, successful or not, made in any reachable board changes no  *)
(* cell off the straight line of the k + 1 cells from its origin along its *)
(* direction: such a cell keeps its stack, and its pieces their kind.      *)
C17Thm ==
    \A c \in MoveOrigins, move_list \in MoveLists, direction \in DIRECTIONS :
        LET r == ApplyMove(board, pieces, c[1], c[2], move_list, direction)
            line == {<<c[1] + j * Dx(direction), c[2] + j * Dy(direction)>> :
                        j \in 0 .. Len(move_list)}
        IN  \A d \in Cells \ line :
                /\ r.board[d] = board[d]
                /\ \A i \in DOMAIN board[d] : r.pieces[board[d][i]] = pieces[board[d][i]]

\* a Move has carried a piece while two cells that share no line hold pieces
C17Witness ==
    /\ last.op = "move"
    /\ last.status = "ok"
    /\ last.height > 0
    /\ \E c, d \in Cells : c[1] # d[1] /\ c[2] # d[2] /\ board[c] # <<>> /\ board[d] # <<>>

----------------------------------------------------------------------------
(* Properties of one Field, under SpecField *)

(* C4: add_stack onto a cell whose top is a capstone fails, whatever comes *)
(* in, and leaves the stack as it was with the capstone on top.            *)
C4Claim ==
    (/\ last.op = "add_stack"
     /\ last.before # <<>>
     /\ TopPiece(last.before, last.heap).type = CAP)
    => /\ last.status # "ok"
       /\ fld = last.before
       /\ TopPiece(fld, pieces).type = CAP

(* C5: add_stack of a non-empty list onto a non-empty cell: a capstone at  *)
(* the bottom of the list landing on a Wall succeeds, the Wall becomes     *)
(* Flat and the list is appended in order; a list whose bottom is no       *)
(* capstone landing on a top that is not Flat fails and changes nothing;   *)
(* onto a Flat top the list is appended and no kind changes.               *)
C5Thm ==
    (last.op = "add_stack" /\ last.before # <<>> /\ last.stack # <<>>) =>
        LET top == last.before[Len(last.before)]
            topkind == last.heap[top].type
            bottomcap == last.heap[last.stack[1]].type = CAP
        IN  /\ (bottomcap /\ topkind = WALL) =>
                  /\ last.status = "ok"
                  /\ pieces[top].type = FLAT
                  /\ \A i \in DOMAIN pieces : i # top => pieces[i] = last.heap[i]
                  /\ fld = last.before \o last.stack
                  /\ Len(fld) = Len(last.before) + Len(last.stack)
                  /\ fld[Len(fld)] = last.stack[Len(last.stack)]
            /\ (~bottomcap /\ topkind # FLAT) =>
                  /\ last.status # "ok"
                  /\ fld = last.before
                  /\ pieces = last.heap
            /\ topkind = FLAT =>
                  /\ last.status = "ok"
                  /\ fld = last.before \o last.stack
                  /\ pieces = last.heap

\* a list with a capstone at its bottom has landed on a Wall
C5Witness ==
    /\ last.op = "add_stack"
    /\ last.status = "ok"
    /\ last.before # <<>>
    /\ last.stack # <<>>
    /\ TopPiece(last.before, last.heap).type = WALL
    /\ last.heap[last.stack[1]].type = CAP

(* C10: take_stones(count) with 0 <= count <= height returns the top count *)
(* pieces bottom to top and leaves the other height - count in place; with *)
(* count > height it fails and the stack is as it was.                     *)
C10Claim ==
    last.op = "take_stones" =>
        IF last.count <= Len(last.before)
        THEN /\ last.status = "ok"
             /\ last.returned = TopOf(last.before, last.count)
             /\ fld = BelowTop(last.before, last.count)
        ELSE /\ last.status # "ok"
             /\ fld = last.before

----------------------------------------------------------------------------
(* Properties of a board whose caller applies Place actions again, under   *)
(* SpecReapply                                                             *)

\* how often piece p lies on the board
RECURSIVE Occurrences(_, _, _)
Occurrences(b, cs, p) ==
    IF cs = {} THEN 0
    ELSE LET c == CHOOSE c \in cs : TRUE
         IN  Cardinality({i \in DOMAIN b[c] : b[c][i] = p}) + Occurrences(b, cs \ {c}, p)

(* C11: every Piece lies in at most one cell's stack, and at most once in  *)
(* it, also when a Place action that was applied before is applied again.  *)
C11Claim == \A p \in DOMAIN pieces : Occurrences(board, Cells, p) <= 1

----------------------------------------------------------------------------
(* Properties of a Game, under SpecGame *)

\* the counter of Game._pieces_left[player] for a kind of stone
Budget(rl, left, player, stone_type) == rl[left[player]][stone_type]

\* the pieces of a colour on the board that are capstones (cap) or are not
OnBoard(b, heap, color, cap) ==
    Cardinality({<<c, i>> \in GameCells \X (1 .. GameSize * GameSize) :
                    /\ i \in DOMAIN b[c]
                    /\ heap[b[c][i]].color = color
                    /\ (heap[b[c][i]].type = CAP) = cap})

(* C12: when the board has accepted a Place, next_action takes exactly 1   *)
(* off the acting player's counter for the placed kind if that counter was *)
(* above 0, and fails leaving the counter as it was if it was 0; no        *)
(* counter is ever negative.                                               *)
C12Thm ==
    [][(last'.op = "next_action" /\ last'.status \in {"ok", "BudgetExhausted"}) =>
          LET before == Budget(rules, pieces_left, current_player, last'.stone_type)
              after == Budget(rules', pieces_left', current_player, last'.stone_type)
          IN  /\ IF before > 0
                 THEN last'.status = "ok" /\ after = before - 1
                 ELSE last'.status = "BudgetExhausted" /\ after = before
              /\ \A size \in DOMAIN rules' :
                    rules'[size].flatstones >= 0 /\ rules'[size].capstones >= 0
      ]_vars

\* a flat Place was refused because no flatstone was left
C12Witness ==
    /\ last.op = "next_action"
    /\ last.status = "BudgetExhausted"
    /\ last.stone_type = "flatstones"

(* C13: a Place made by one player leaves the counters of the other player *)
(* and the entry of Game.RULES for the size as they were, and a Game made  *)
(* later starts with the full supply of RULES.                             *)
C13Claim ==
    [][/\ (last'.op = "next_action" /\ last'.status = "ok") =>
            /\ rules'[pieces_left'[3 - current_player]]
                   = rules[pieces_left[3 - current_player]]
            /\ rules'[GameSize] = rules[GameSize]
       /\ last'.op = "Game" => \A player \in {1, 2} :
            rules'[pieces_left'[player]] = RULES[GameSize]
      ]_vars

(* C16: a next_action that completes hands the turn to the other player;   *)
(* one that fails, in Board.apply or on the budget, leaves current_player  *)
(* as it was.                                                              *)
C16Thm ==
    [][last'.op = "next_action" =>
          IF last'.status = "ok"
          THEN current_player' \in {1, 2} /\ current_player' # current_player
          ELSE current_player' = current_player
      ]_vars

\* player2 has placed and the turn is back with player1
C16Witness ==
    /\ last.op = "next_action"
    /\ last.status = "ok"
    /\ last.player = 2
    /\ current_player = 1

(* C18: for either colour the capstones on the board are at most           *)
(* RULES[size].capstones and the other pieces at most                      *)
(* RULES[size].flatstones, and a next_action that fails on the budget      *)
(* leaves the board as it was.                                             *)
C18Claim ==
    [][/\ \A color \in COLORS :
            /\ OnBoard(board', pieces', color, TRUE) <= RULES[GameSize].capstones
            /\ OnBoard(board', pieces', color, FALSE) <= RULES[GameSize].flatstones
       /\ (last'.op = "next_action" /\ last'.status = "BudgetExhausted") => board' = board
      ]_vars

====
